---- MODULE Spec2Model ----
(***************************************************************************)
(* Model of the DalliKlick reveal game (src/src/App.jsx): the session      *)
(* state of the App component, its event handlers, the image-load effect,  *)
(* the draw loop, and the pure helpers (reveal orders, scoring, reveal     *)
(* counts).  JavaScript numbers are IEEE doubles: integer-valued state is  *)
(* kept as integers plus the value NaN, and the three places where the     *)
(* code rounds a quotient (scoring, reveal counts, fitted rectangle) are   *)
(* computed with a bit-exact 53-bit significand.                           *)
(***************************************************************************)
EXTENDS Integers, Sequences, FiniteSets, TLC

(***************************************************************************)
(* Bounds of the model.                                                    *)
(***************************************************************************)
\* largest round seed the session specifications reach
MaxSeed == 3
\* largest number of teams (addTeam is capped here)
MaxTeams == 6
\* largest number of teams in the session specification
MaxSessionTeams == 3
\* largest number of picked files
MaxFiles == 2
\* largest seed handed to the order generators in the function harness
MaxFnSeed == 12
\* largest grid size per axis handed to makeSpiralOrder in the harness
MaxFnTileN == 6
\* largest unit count handed to makeRandomOrder in the harness
MaxFnCount == 12
\* largest step reached in the order specification
MaxOrderStep == 2
\* steps of a round explored in the session specification
MaxSessionStep == 6

(***************************************************************************)
(* JavaScript numbers.  NaN stands for the double NaN; every other value   *)
(* of the integer-valued fields is the integer itself.                     *)
(***************************************************************************)
NaN == -1000000

IsNaN(x) == x = NaN

\* Math.max(a, b) and Math.min(a, b): NaN if either argument is NaN
Math_max(a, b) == IF IsNaN(a) \/ IsNaN(b) THEN NaN ELSE IF a >= b THEN a ELSE b

Math_min(a, b) == IF IsNaN(a) \/ IsNaN(b) THEN NaN ELSE IF a <= b THEN a ELSE b

\* a + b on integer-valued doubles
jsAdd(a, b) == IF IsNaN(a) \/ IsNaN(b) THEN NaN ELSE a + b

\* the comparison a <= b (false when either side is NaN)
jsLeq(a, b) == ~IsNaN(a) /\ ~IsNaN(b) /\ a <= b

\* const clamp = (v, a, b) => Math.max(a, Math.min(b, v))
clamp(v, a, b) == Math_max(a, Math_min(b, v))

(***************************************************************************)
(* IEEE-754 double arithmetic on positive values.  A double is a record    *)
(* [k, m, e]: k = "zero", or k = "num" with m the significand bits (most   *)
(* significant first, m[1] = 1, at most 53 bits) and e the exponent of the *)
(* last bit, so the value is m * 2^e.                                      *)
(***************************************************************************)
SigBits == 53

FZero == [k |-> "zero", m |-> <<>>, e |-> 0]

\* big naturals are bit strings; for arithmetic they are cut into 15-bit limbs,
\* least significant limb first
LimbBits == 15

LimbBase == 32768

Pow2Tab == <<1, 2, 4, 8, 16, 32, 64, 128, 256, 512, 1024, 2048, 4096, 8192, 16384, 32768>>

Pow2(k) == Pow2Tab[k + 1]

RECURSIVE BitsToInt(_, _)
BitsToInt(bits, acc) ==
  IF bits = <<>> THEN acc ELSE BitsToInt(Tail(bits), 2 * acc + Head(bits))

RECURSIVE IntToBits(_, _)
IntToBits(n, acc) ==
  IF n = 0 THEN acc ELSE IntToBits(n \div 2, <<n % 2>> \o acc)

StripZeros(bits) ==
  LET ones == {i \in 1..Len(bits) : bits[i] = 1}
  IN IF ones = {} THEN <<>>
     ELSE SubSeq(bits, CHOOSE i \in ones : \A j \in ones : i <= j, Len(bits))

Zeros(n) == [i \in 1..n |-> 0]

limbsOf(bits) ==
  LET n == Len(bits)
  IN [j \in 1..((n + LimbBits - 1) \div LimbBits) |->
        BitsToInt(SubSeq(bits,
                         IF n - LimbBits * j + 1 < 1 THEN 1 ELSE n - LimbBits * j + 1,
                         n - LimbBits * (j - 1)), 0)]

bitsOf(limbs) ==
  LET n == LimbBits * Len(limbs)
  IN StripZeros([i \in 1..n |->
                   (limbs[((n - i) \div LimbBits) + 1] \div Pow2((n - i) % LimbBits)) % 2])

\* limbs * u for 0 < u < 2^16
RECURSIVE MulLimbs(_, _, _, _, _)
MulLimbs(limbs, u, i, c, out) ==
  IF i > Len(limbs) THEN (IF c = 0 THEN out ELSE Append(out, c))
  ELSE LET v == limbs[i] * u + c
       IN MulLimbs(limbs, u, i + 1, v \div LimbBase, Append(out, v % LimbBase))

\* x - y for limb strings of equal length with x >= y
RECURSIVE SubLimbs(_, _, _, _, _)
SubLimbs(x, y, i, br, out) ==
  IF i > Len(x) THEN out
  ELSE LET v == x[i] - y[i] - br
       IN IF v < 0 THEN SubLimbs(x, y, i + 1, 1, Append(out, v + LimbBase))
          ELSE SubLimbs(x, y, i + 1, 0, Append(out, v))

\* round a significand up by one unit in the last place
RoundUp(bits, e) ==
  LET n == Len(bits)
      zeros == {i \in 1..n : bits[i] = 0}
      p == CHOOSE i \in zeros : \A j \in zeros : j <= i
  IN IF zeros = {}
     THEN [k |-> "num", m |-> <<1>> \o Zeros(n - 1), e |-> e + 1]
     ELSE [k |-> "num",
           m |-> [i \in 1..n |-> IF i < p THEN bits[i] ELSE IF i = p THEN 1 ELSE 0],
           e |-> e]

\* round an exact bit string to 53 significant bits, ties to even
RoundBits(bits, e) ==
  LET n == Len(bits)
      d == n - SigBits
  IN IF d <= 0 THEN [k |-> "num", m |-> bits, e |-> e]
     ELSE LET keep == SubSeq(bits, 1, SigBits)
              half == bits[SigBits + 1] = 1
              rest == \E i \in (SigBits + 2)..n : bits[i] = 1
          IN IF half /\ (rest \/ keep[SigBits] = 1)
             THEN RoundUp(keep, e + d)
             ELSE [k |-> "num", m |-> keep, e |-> e + d]

\* scale a / b into [1, 2): a / b = (a' / b') * 2^sh with b' <= a' < 2 b'
RECURSIVE Normalize(_, _, _)
Normalize(a, b, sh) ==
  IF a < b THEN Normalize(2 * a, b, sh - 1)
  ELSE IF a >= 2 * b THEN Normalize(a, 2 * b, sh + 1)
  ELSE [a |-> a, b |-> b, sh |-> sh]

\* 2^j mod b for j < 60
Pow2Mod(j, b) ==
  LET p == LimbBase % b
      q == j \div LimbBits
      pq == CASE q = 0 -> 1 % b
              [] q = 1 -> p
              [] q = 2 -> (p * p) % b
              [] q = 3 -> (((p * p) % b) * p) % b
  IN (pq * Pow2(j % LimbBits)) % b

\* the double s / n for integers s >= 0, n > 0: long division of a by b, where
\* rem(j) is the remainder left after j quotient bits behind the leading one
fdiv(s, n) ==
  IF s = 0 THEN FZero
  ELSE LET nz == Normalize(s, n, 0)
           b == nz.b
           r0 == nz.a - nz.b
           rem(j) == (r0 * Pow2Mod(j, b)) % b
           m == [i \in 1..SigBits |->
                   IF i = 1 THEN 1 ELSE IF 2 * rem(i - 2) >= b THEN 1 ELSE 0]
           last == rem(SigBits - 1)
           e == nz.sh - (SigBits - 1)
       IN IF 2 * last > b \/ (2 * last = b /\ m[SigBits] = 1)
          THEN RoundUp(m, e)
          ELSE [k |-> "num", m |-> m, e |-> e]

\* the double f * u for an integer u >= 0
fmul(f, u) ==
  IF f.k = "zero" \/ u = 0 THEN FZero
  ELSE RoundBits(bitsOf(MulLimbs(limbsOf(f.m), u, 1, 0, <<>>)), f.e)

\* Math.floor(f) for f >= 0 below 2^31
Math_floor(f) ==
  IF f.k = "zero" THEN 0
  ELSE LET n == Len(f.m) + f.e
       IN IF n <= 0 THEN 0
          ELSE IF f.e >= 0 THEN BitsToInt(f.m \o Zeros(f.e), 0)
          ELSE BitsToInt(SubSeq(f.m, 1, n), 0)

\* the bit of weight 1/2 in f, and whether any lower bit is set
HalfBit(f) ==
  LET n == Len(f.m) + f.e
  IN IF f.k = "zero" \/ f.e >= 0 \/ n < 0 THEN 0 ELSE f.m[n + 1]

BelowHalf(f) ==
  LET n == Len(f.m) + f.e
  IN IF f.k = "zero" \/ f.e >= 0 THEN FALSE
     ELSE IF n < 0 THEN TRUE
     ELSE \E i \in (n + 2)..Len(f.m) : f.m[i] = 1

\* the double a - f for an integer a > 0: sign and magnitude
fsubFrom(a, f) ==
  IF f.k = "zero" THEN [neg |-> FALSE, f |-> [k |-> "num", m |-> IntToBits(a, <<>>), e |-> 0]]
  ELSE LET sh == IF f.e < 0 THEN 0 - f.e ELSE 0
           ab0 == IntToBits(a, <<>>) \o Zeros(sh)
           fb0 == IF f.e > 0 THEN f.m \o Zeros(f.e) ELSE f.m
           w == IF Len(ab0) >= Len(fb0) THEN Len(ab0) ELSE Len(fb0)
           ab == Zeros(w - Len(ab0)) \o ab0
           fb == Zeros(w - Len(fb0)) \o fb0
           le == IF f.e < 0 THEN f.e ELSE 0
           big == \E i \in 1..w : ab[i] > fb[i] /\ \A j \in 1..(i - 1) : ab[j] = fb[j]
           d == IF ab = fb THEN <<>>
                ELSE IF big THEN bitsOf(SubLimbs(limbsOf(ab), limbsOf(fb), 1, 0, <<>>))
                ELSE bitsOf(SubLimbs(limbsOf(fb), limbsOf(ab), 1, 0, <<>>))
       IN IF d = <<>> THEN [neg |-> FALSE, f |-> FZero]
          ELSE [neg |-> ~big, f |-> RoundBits(d, le)]

\* Math.round(x) = floor(x + 1/2) for the signed double x = [neg, f]
Math_round(x) ==
  IF ~x.neg THEN Math_floor(x.f) + HalfBit(x.f)
  ELSE 0 - (Math_floor(x.f) + (IF HalfBit(x.f) = 1 /\ BelowHalf(x.f) THEN 1 ELSE 0))


(***************************************************************************)
(* Reveal orders (App.jsx 17-59).  A JavaScript array is a sequence whose  *)
(* element k+1 is the array's element k.                                   *)
(***************************************************************************)
LcgMul == 1664525

LcgInc == 1013904223

Limb == 65536

\* let s = seed >>> 0, kept as two 16-bit limbs so that no product overflows
seedState(seed) == [hi |-> (seed \div Limb) % Limb, lo |-> seed % Limb]

\* s = (1664525 * s + 1013904223) >>> 0
lcgNext(s) ==
  LET p0 == (LcgMul % Limb) * s.lo + (LcgInc % Limb)
      p1 == (LcgMul % Limb) * s.hi + (LcgMul \div Limb) * s.lo
            + (LcgInc \div Limb) + (p0 \div Limb)
  IN [hi |-> p1 % Limb, lo |-> p0 % Limb]

\* Math.floor(rnd() * m) for the state s just produced: floor(s * m / 2^32)
rndIndex(s, m) == (s.hi * m + ((s.lo * m) \div Limb)) \div Limb

\* a Fisher-Yates step that forgets the second half of the swap
swapMutant(arr, i, j) == [arr EXCEPT ![i + 1] = arr[j + 1]]

\* [arr[i], arr[j]] = [arr[j], arr[i]]
swap(arr, i, j) == [arr EXCEPT ![i + 1] = arr[j + 1], ![j + 1] = arr[i + 1]]

\* one pass of the Fisher-Yates loop at index i on st = [arr, s]:
\* j = Math.floor(rnd() * (i + 1)); swap(arr, i, j)
shuffleStep(st, i) ==
  LET s1 == lcgNext(st.s)
  IN [arr |-> swap(st.arr, i, rndIndex(s1, i + 1)), s |-> s1]

\* the passes i = hi, hi - 1, ..., lo of the loop, in that order (the test on
\* upper is always true: it has the upper passes evaluated before the lower)
RECURSIVE shuffleRange(_, _, _)
shuffleRange(st, hi, lo) ==
  IF hi < lo THEN st
  ELSE IF hi = lo THEN shuffleStep(st, hi)
  ELSE LET mid == (hi + lo) \div 2
           upper == shuffleRange(st, hi, mid + 1)
       IN IF Len(upper.arr) >= 0 THEN shuffleRange(upper, mid, lo) ELSE upper

\* for (let i = arr.length - 1; i > 0; i--) { ... } return arr
shuffle(arr, s) == shuffleRange([arr |-> arr, s |-> s], Len(arr) - 1, 1).arr

\* function makeRandomOrder(tileCount, seed); Array.from({length: NaN}) is []
makeRandomOrder(tileCount, seed) ==
  IF IsNaN(tileCount) THEN <<>>
  ELSE shuffle([k \in 1..tileCount |-> k - 1], seedState(seed))

\* a ring whose bottom row is walked left to right
spiralRingMutant(tileN, top, bottom, left, right) ==
  [k \in 1..(right - left + 1) |-> top * tileN + left + k - 1]
  \o [k \in 1..(bottom - top) |-> (top + k) * tileN + right]
  \o (IF top < bottom
      THEN [k \in 1..(right - left) |-> bottom * tileN + left + k - 1]
      ELSE <<>>)
  \o (IF left < right
      THEN [k \in 1..(bottom - top - 1) |-> (bottom - k) * tileN + left]
      ELSE <<>>)

\* one pass of the while loop of makeSpiralOrder: the cells of one ring
spiralRing(tileN, top, bottom, left, right) ==
  [k \in 1..(right - left + 1) |-> top * tileN + left + k - 1]
  \o [k \in 1..(bottom - top) |-> (top + k) * tileN + right]
  \o (IF top < bottom
      THEN [k \in 1..(right - left) |-> bottom * tileN + right - k]
      ELSE <<>>)
  \o (IF left < right
      THEN [k \in 1..(bottom - top - 1) |-> (bottom - k) * tileN + left]
      ELSE <<>>)

\* while (top <= bottom && left <= right) { ...; top++; bottom--; left++; right-- }
RECURSIVE spiralLoop(_, _, _, _, _, _)
spiralLoop(tileN, top, bottom, left, right, order) ==
  IF ~(top <= bottom /\ left <= right) THEN order
  ELSE spiralLoop(tileN, top + 1, bottom - 1, left + 1, right - 1,
                  order \o spiralRing(tileN, top, bottom, left, right))

\* order.slice().reverse()
reverse(seq) == [k \in 1..Len(seq) |-> seq[Len(seq) + 1 - k]]

\* function makeSpiralOrder(tileN, direction, seed); with tileN NaN the loop
\* condition 0 <= NaN is false and the order is empty
makeSpiralOrder(tileN, direction, seed) ==
  LET order == IF IsNaN(tileN) THEN <<>>
               ELSE spiralLoop(tileN, 0, tileN - 1, 0, tileN - 1, <<>>)
      baseOrder == IF direction = "inside-out" THEN reverse(order) ELSE order
      rotation == IF Len(baseOrder) # 0 THEN seed % Len(baseOrder) ELSE 0
  IN SubSeq(baseOrder, rotation + 1, Len(baseOrder)) \o SubSeq(baseOrder, 1, rotation)

\* function makeSegmentOrder(segments, seed)
makeSegmentOrder(segments, seed) == makeRandomOrder(segments, seed)

(***************************************************************************)
(* Scoring (App.jsx 66-71) and reveal counts (App.jsx 253-255, 266-268).   *)
(***************************************************************************)
\* lerp(a, b, t) = a + (b - a) * t for integers a >= b and a double t >= 0
lerp(a, b, t) == fsubFrom(a, fmul(t, a - b))

\* scoring that divides by stepsTotal instead of stepsTotal - 1
pointsForStepMutant(stepIndex, stepsTotal, maxPoints) ==
  IF IsNaN(stepIndex) \/ IsNaN(stepsTotal) THEN NaN
  ELSE LET t == fdiv(stepIndex, Math_max(stepsTotal, 1))
           pts == Math_round(lerp(maxPoints, 1, t))
       IN clamp(pts, 1, maxPoints)

\* function pointsForStep(stepIndex, stepsTotal, maxPoints)
pointsForStep(stepIndex, stepsTotal, maxPoints) ==
  IF IsNaN(stepIndex) \/ IsNaN(stepsTotal) THEN NaN
  ELSE LET t == fdiv(stepIndex, Math_max(stepsTotal - 1, 1))
           pts == Math_round(lerp(maxPoints, 1, t))
       IN clamp(pts, 1, maxPoints)

\* Math.floor((stepIndex / stepsTotal) * count)
visibleCount(stepIndex, stepsTotal, count) ==
  IF IsNaN(stepIndex) \/ IsNaN(stepsTotal) \/ IsNaN(count) THEN NaN
  ELSE Math_floor(fmul(fdiv(stepIndex, stepsTotal), count))

\* Math.floor((Math.max(stepIndex - 1, 0) / stepsTotal) * count)
prevCount(stepIndex, stepsTotal, count) ==
  visibleCount(Math_max(jsAdd(stepIndex, -1), 0), stepsTotal, count)

(***************************************************************************)
(* The draw callback's geometry (App.jsx 225-232, 253-340).                *)
(***************************************************************************)
\* f <= g for two doubles with full 53-bit significands
fLeq(f, g) ==
  IF f.e # g.e THEN f.e < g.e
  ELSE f.m = g.m
       \/ \E i \in 1..SigBits : f.m[i] < g.m[i] /\ \A j \in 1..(i - 1) : f.m[j] = g.m[j]

\* const scale = Math.min(w / iw, h / ih) for w, h > 0: a division by 0 gives
\* Infinity, and Math.min(Infinity, x) = x
fitScale(w, h, iw, ih) ==
  IF iw = 0 /\ ih = 0 THEN [k |-> "inf", m |-> <<>>, e |-> 0]
  ELSE IF iw = 0 THEN fdiv(h, ih)
  ELSE IF ih = 0 THEN fdiv(w, iw)
  ELSE IF fLeq(fdiv(w, iw), fdiv(h, ih)) THEN fdiv(w, iw) ELSE fdiv(h, ih)

\* Math.round(i * scale); 0 * Infinity is NaN
fitSize(i, scale) ==
  IF scale.k = "inf" THEN NaN
  ELSE Math_round([neg |-> FALSE, f |-> fmul(scale, i)])

\* Math.round((w - d) / 2)
fitOffset(w, d) == IF IsNaN(d) THEN NaN ELSE (w - d + 1) \div 2

\* the values i takes in a loop for (let i = from; i < to; i++), in order;
\* the loop body never runs when a bound is NaN
loopSeq(from, to) ==
  IF IsNaN(from) \/ IsNaN(to) \/ to <= from THEN <<>>
  ELSE [k \in 1..(to - from) |-> from + k - 1]

\* the loops that build the reveal mask: mask lists the positions of the order
\* whose unit is added to the clip path, in the order the loops add them.
\* Tile modes run for (i = 0; i < prevTiles; i++) and then
\* for (i = prevTiles; i < tilesToShow; i++); wedge mode runs
\* for (i = 0; i < revealSegments; i++), and its highlight pass runs
\* for (i = prevSegments; i < segmentsToShow; i++).
maskLoops(mode, stepIndex, stepsTotal, tileCount, segments) ==
  LET count == IF mode = "WEDGES_RADIAL" THEN segments ELSE tileCount
      toShow == visibleCount(stepIndex, stepsTotal, count)
      prev == prevCount(stepIndex, stepsTotal, count)
  IN [toShow |-> toShow,
      prev |-> prev,
      incomingCount |-> Math_max(IF IsNaN(toShow) \/ IsNaN(prev) THEN NaN
                                 ELSE toShow - prev, 0),
      mask |-> IF mode = "WEDGES_RADIAL"
               THEN loopSeq(0, Math_max(toShow, 0))
               ELSE loopSeq(0, prev) \o loopSeq(prev, toShow),
      settled |-> loopSeq(0, prev),
      incoming |-> loopSeq(prev, toShow)]

(***************************************************************************)
(* Form input.  A number input reports "" or a valid floating-point        *)
(* literal; strings are sequences of characters.                           *)
(***************************************************************************)
IsDigit(c) == c \in {"0", "1", "2", "3", "4", "5", "6", "7", "8", "9"}

DigitVal(c) ==
  CASE c = "0" -> 0 [] c = "1" -> 1 [] c = "2" -> 2 [] c = "3" -> 3 [] c = "4" -> 4
    [] c = "5" -> 5 [] c = "6" -> 6 [] c = "7" -> 7 [] c = "8" -> 8 [] c = "9" -> 9

RECURSIVE leadingDigits(_, _)
leadingDigits(str, acc) ==
  IF str = <<>> \/ ~IsDigit(Head(str)) THEN acc
  ELSE leadingDigits(Tail(str), 10 * acc + DigitVal(Head(str)))

\* parseInt(str, 10): an optional sign, then the leading digits; NaN if none
parseInt(str) ==
  LET signed == str # <<>> /\ Head(str) \in {"-", "+"}
      body == IF signed THEN Tail(str) ELSE str
  IN IF body = <<>> \/ ~IsDigit(Head(body)) THEN NaN
     ELSE IF signed /\ Head(str) = "-" THEN 0 - leadingDigits(body, 0)
     ELSE leadingDigits(body, 0)

\* e.target.value || dflt
orDefault(value, dflt) == IF value = <<>> THEN dflt ELSE value

\* what the "Schritte" field may report: "", "3", "7.9", ".5"
StepsInputs == {<<>>, <<"3">>, <<"7", ".", "9">>, <<".", "5">>}

\* what the "Rastergroesse" field may report: "", "6", "7", ".5"
TileInputs == {<<>>, <<"6">>, <<"7">>, <<".", "5">>}

\* what the "Segmente" field may report: "", "2", "36"
SegmentInputs == {<<>>, <<"2">>, <<"3", "6">>}

(***************************************************************************)
(* State of the App component (App.jsx 74-104), of its effects, and of the *)
(* harness that calls the pure helpers.                                    *)
(***************************************************************************)
VARIABLES
  files,            \* the picked files; each carries the size its image decodes to
  current,          \* index of the current file
  img,              \* the active image (NoImg for null)
  isGameActive,
  teams,            \* sequence of [name, score]; name is the letter's char code
  tileN,
  revealMode,
  spiralDirection,
  wedgeSegments,
  stepsTotal,
  stepIndex,
  seed,
  mounted,          \* FALSE once the component has been torn down
  loads,            \* Image objects whose load has been started and not completed
  loadDeps,         \* [files, current] as of the last run of the image-load effect
  rafPending,       \* a frame callback is registered with requestAnimationFrame
  drawDeps,         \* the values the current draw closure was created with
  frame,            \* what the last call of draw put on the canvas
  fullscreen,       \* document.fullscreenElement is set
  fnName,           \* harness: the helper called last
  fnArgs,           \* harness: its arguments
  fnOut             \* harness: its result

sessionVars == <<files, current, isGameActive, teams, tileN, revealMode,
                 spiralDirection, wedgeSegments, stepsTotal, stepIndex, seed>>

effectVars == <<img, mounted, loads, loadDeps, rafPending, drawDeps, frame, fullscreen>>

fnVars == <<fnName, fnArgs, fnOut>>

vars == <<sessionVars, effectVars, fnVars>>

MinSteps == 5

MaxSteps == 80

MinTileN == 6

MaxTileN == 40

MinSegments == 6

MaxSegments == 36

MaxPoints == 20

\* canvas.clientWidth and canvas.clientHeight
CanvasW == 8

CanvasH == 6

NoImg == [idx |-> -1, w |-> 0, h |-> 0]

NoFrame == [kind |-> "none", iw |-> 0, ih |-> 0, dw |-> 0, dh |-> 0, dx |-> 0,
            dy |-> 0, mask |-> <<>>, incoming |-> <<>>, popping |-> FALSE]

\* const tileCount = tileN * tileN
tileCount == IF IsNaN(tileN) THEN NaN ELSE tileN * tileN

\* const canStart = files.length > 0
canStart == Len(files) > 0

\* the callback of const revealOrder = useMemo(...), the seed being sd
revealOrderFor(sd) ==
  IF revealMode = "SPIRAL_GRID" THEN makeSpiralOrder(tileN, spiralDirection, sd)
  ELSE makeRandomOrder(tileCount, sd)

\* const revealOrder = useMemo(..., [tileN, tileCount, revealMode, spiralDirection, seed])
revealOrder == revealOrderFor(seed)

\* the callback of const wedgeOrder = useMemo(...), the seed being sd
wedgeOrderFor(sd) == makeSegmentOrder(wedgeSegments, sd)

\* const wedgeOrder = useMemo(() => makeSegmentOrder(wedgeSegments, seed), ...)
wedgeOrder == wedgeOrderFor(seed)

\* the dependency lists of the two effects, from the current render
ImageDeps == [files |-> files, current |-> current]

DrawDeps == [img |-> img, tileN |-> tileN, revealMode |-> revealMode,
             spiralDirection |-> spiralDirection, wedgeSegments |-> wedgeSegments,
             stepIndex |-> stepIndex, stepsTotal |-> stepsTotal, seed |-> seed]

Init ==
  /\ files = <<>>
  /\ current = 0
  /\ img = NoImg
  /\ isGameActive = FALSE
  /\ teams = <<[name |-> 65, score |-> 0], [name |-> 66, score |-> 0]>>
  /\ tileN = 18
  /\ revealMode = "GRID_RANDOM"
  /\ spiralDirection = "outside-in"
  /\ wedgeSegments = 18
  /\ stepsTotal = 20
  /\ stepIndex = 0
  /\ seed = 1
  /\ mounted = TRUE
  /\ loads = {}
  /\ loadDeps = ImageDeps
  /\ rafPending = FALSE
  /\ drawDeps = DrawDeps
  /\ frame = NoFrame
  /\ fullscreen = FALSE
  /\ fnName = "none"
  /\ fnArgs = <<>>
  /\ fnOut = <<>>

(***************************************************************************)
(* Setup screen handlers (rendered while !isGameActive, App.jsx 428-616).  *)
(***************************************************************************)
\* onChange of the reveal-mode select
SetRevealMode(m) ==
  /\ mounted /\ ~isGameActive
  /\ revealMode' = m
  /\ UNCHANGED <<files, current, isGameActive, teams, tileN, spiralDirection,
                 wedgeSegments, stepsTotal, stepIndex, seed, effectVars, fnVars>>

\* onChange of the spiral-direction select, shown in SPIRAL_GRID mode only
SetSpiralDirection(d) ==
  /\ mounted /\ ~isGameActive /\ revealMode = "SPIRAL_GRID"
  /\ spiralDirection' = d
  /\ UNCHANGED <<files, current, isGameActive, teams, tileN, revealMode,
                 wedgeSegments, stepsTotal, stepIndex, seed, effectVars, fnVars>>

\* setTileN(clamp(parseInt(e.target.value || "18", 10), 6, 40))
SetTileN(value) ==
  /\ mounted /\ ~isGameActive
  /\ tileN' = clamp(parseInt(orDefault(value, <<"1", "8">>)), MinTileN, MaxTileN)
  /\ UNCHANGED <<files, current, isGameActive, teams, revealMode, spiralDirection,
                 wedgeSegments, stepsTotal, stepIndex, seed, effectVars, fnVars>>

\* setStepsTotal(clamp(parseInt(e.target.value || "20", 10), 5, 80))
SetStepsTotal(value) ==
  /\ mounted /\ ~isGameActive
  /\ stepsTotal' = clamp(parseInt(orDefault(value, <<"2", "0">>)), MinSteps, MaxSteps)
  /\ UNCHANGED <<files, current, isGameActive, teams, tileN, revealMode,
                 spiralDirection, wedgeSegments, stepIndex, seed, effectVars, fnVars>>

\* setWedgeSegments(clamp(parseInt(e.target.value || "18", 10), 6, 36)),
\* shown in WEDGES_RADIAL mode only
SetWedgeSegments(value) ==
  /\ mounted /\ ~isGameActive /\ revealMode = "WEDGES_RADIAL"
  /\ wedgeSegments' = clamp(parseInt(orDefault(value, <<"1", "8">>)), MinSegments, MaxSegments)
  /\ UNCHANGED <<files, current, isGameActive, teams, tileN, revealMode,
                 spiralDirection, stepsTotal, stepIndex, seed, effectVars, fnVars>>

\* onPickFiles: an empty pick returns early
OnPickFiles(picked) ==
  /\ mounted /\ ~isGameActive
  /\ picked # <<>>
  /\ seed < MaxSeed
  /\ files' = picked
  /\ current' = 0
  /\ seed' = seed + 1
  /\ stepIndex' = 0
  /\ UNCHANGED <<isGameActive, teams, tileN, revealMode, spiralDirection,
                 wedgeSegments, stepsTotal, effectVars, fnVars>>

\* addTeam: the next letter is String.fromCharCode(65 + teams.length)
AddTeam ==
  /\ mounted /\ ~isGameActive
  /\ Len(teams) < MaxTeams
  /\ teams' = Append(teams, [name |-> 65 + Len(teams), score |-> 0])
  /\ UNCHANGED <<files, current, isGameActive, tileN, revealMode, spiralDirection,
                 wedgeSegments, stepsTotal, stepIndex, seed, effectVars, fnVars>>

\* resetScores
ResetScores ==
  /\ mounted /\ ~isGameActive
  /\ teams' = [i \in DOMAIN teams |-> [teams[i] EXCEPT !.score = 0]]
  /\ UNCHANGED <<files, current, isGameActive, tileN, revealMode, spiralDirection,
                 wedgeSegments, stepsTotal, stepIndex, seed, effectVars, fnVars>>

\* "Spiel starten", disabled unless canStart
StartGame ==
  /\ mounted /\ ~isGameActive
  /\ canStart
  /\ isGameActive' = TRUE
  /\ UNCHANGED <<files, current, teams, tileN, revealMode, spiralDirection,
                 wedgeSegments, stepsTotal, stepIndex, seed, effectVars, fnVars>>

(***************************************************************************)
(* Game screen handlers (buttons of the game screen, App.jsx 136-154).     *)
(***************************************************************************)
\* const nextStep = () => setStepIndex((s) => clamp(s + 1, 0, stepsTotal))
NextStep ==
  /\ mounted /\ isGameActive
  /\ stepIndex' = clamp(jsAdd(stepIndex, 1), 0, stepsTotal)
  /\ UNCHANGED <<files, current, isGameActive, teams, tileN, revealMode,
                 spiralDirection, wedgeSegments, stepsTotal, seed, effectVars, fnVars>>

\* const prevStep = () => setStepIndex((s) => clamp(s - 1, 0, stepsTotal))
PrevStep ==
  /\ mounted /\ isGameActive
  /\ stepIndex' = clamp(jsAdd(stepIndex, -1), 0, stepsTotal)
  /\ UNCHANGED <<files, current, isGameActive, teams, tileN, revealMode,
                 spiralDirection, wedgeSegments, stepsTotal, seed, effectVars, fnVars>>

\* a reset that keeps the seed
ResetRoundMutant ==
  /\ mounted /\ isGameActive
  /\ seed < MaxSeed
  /\ stepIndex' = 0
  /\ UNCHANGED <<files, current, isGameActive, teams, tileN, revealMode,
                 spiralDirection, wedgeSegments, stepsTotal, seed, effectVars, fnVars>>

\* const resetRound = () => { setStepIndex(0); setSeed((x) => x + 1); }
ResetRound ==
  /\ mounted /\ isGameActive
  /\ seed < MaxSeed
  /\ stepIndex' = 0
  /\ seed' = seed + 1
  /\ UNCHANGED <<files, current, isGameActive, teams, tileN, revealMode,
                 spiralDirection, wedgeSegments, stepsTotal, effectVars, fnVars>>

\* const nextImage = () => { if (!files.length) return; setCurrent(...); resetRound(); }
NextImage ==
  /\ mounted /\ isGameActive
  /\ Len(files) # 0
  /\ seed < MaxSeed
  /\ current' = (current + 1) % Len(files)
  /\ stepIndex' = 0
  /\ seed' = seed + 1
  /\ UNCHANGED <<files, isGameActive, teams, tileN, revealMode, spiralDirection,
                 wedgeSegments, stepsTotal, effectVars, fnVars>>

\* an award that scores the step after the round was reset
AwardTeamMutant(teamIdx) ==
  /\ mounted /\ isGameActive
  /\ teamIdx \in 0..(Len(teams) - 1)
  /\ (Len(files) = 0 \/ seed < MaxSeed)
  /\ IF Len(files) = 0
     THEN UNCHANGED <<current, stepIndex, seed>>
     ELSE /\ current' = (current + 1) % Len(files)
          /\ stepIndex' = 0
          /\ seed' = seed + 1
  /\ UNCHANGED <<files, isGameActive, tileN, revealMode, spiralDirection,
                 wedgeSegments, stepsTotal, effectVars, fnVars>>
  /\ teams' = [i \in DOMAIN teams |->
                 IF i - 1 = teamIdx
                 THEN [teams[i] EXCEPT !.score =
                         jsAdd(@, pointsForStep(0, stepsTotal, MaxPoints))]
                 ELSE teams[i]]

\* const awardTeam = (teamIdx) => { pts = pointsForStep(stepIndex, stepsTotal, 20);
\* setTeams(map); nextImage(); } with nextImage returning early without files
AwardTeam(teamIdx) ==
  /\ mounted /\ isGameActive
  /\ teamIdx \in 0..(Len(teams) - 1)
  /\ (Len(files) = 0 \/ seed < MaxSeed)
  /\ IF Len(files) = 0
     THEN UNCHANGED <<current, stepIndex, seed>>
     ELSE /\ current' = (current + 1) % Len(files)
          /\ stepIndex' = 0
          /\ seed' = seed + 1
  /\ UNCHANGED <<files, isGameActive, tileN, revealMode, spiralDirection,
                 wedgeSegments, stepsTotal, effectVars, fnVars>>
  /\ teams' = [i \in DOMAIN teams |->
                 IF i - 1 = teamIdx
                 THEN [teams[i] EXCEPT !.score =
                         jsAdd(@, pointsForStep(stepIndex, stepsTotal, MaxPoints))]
                 ELSE teams[i]]

\* e.key of a one-character key as its character code, and the two case maps
toLowerCase(c) == IF c \in 65..90 THEN c + 32 ELSE c

toUpperCase(c) == IF c \in 97..122 THEN c - 32 ELSE c

\* onKey, the keydown listener of the window: Space, "n", "r", "f", and else
\* the team whose index is the key's upper-case character code minus 65; a
\* fullscreen request may be granted or refused
KeyDown(key) ==
  /\ mounted /\ isGameActive
  /\ IF key = 32 THEN NextStep
     ELSE IF toLowerCase(key) = 110 THEN NextImage
     ELSE IF toLowerCase(key) = 114 THEN ResetRound
     ELSE IF toLowerCase(key) = 102
     THEN /\ \E granted \in BOOLEAN : fullscreen' = IF granted THEN ~fullscreen ELSE fullscreen
          /\ UNCHANGED <<sessionVars, img, mounted, loads, loadDeps, rafPending,
                         drawDeps, frame, fnVars>>
     ELSE LET idx == toUpperCase(key) - 65
          IN IF idx >= 0 /\ idx < Len(teams) THEN AwardTeam(idx)
             ELSE UNCHANGED vars

(***************************************************************************)
(* Effects and callbacks (App.jsx 117-126, 188-410).  React runs an effect *)
(* after a render in which one of its dependencies changed; the effects of *)
(* a render started by a click or a key are run before the next handler.   *)
(***************************************************************************)
EffectsFlushed == loadDeps = ImageDeps /\ drawDeps = DrawDeps

\* useEffect(() => { f = files[current]; if (!f) { setImg(null); return; }
\* image = new Image(); image.onload = ...; image.src = f.url; }, [files, current])
RunImageEffect ==
  /\ mounted
  /\ loadDeps # ImageDeps
  /\ loadDeps' = ImageDeps
  /\ IF current + 1 \in DOMAIN files
     THEN /\ loads' = loads \cup {[idx |-> current, w |-> files[current + 1].w,
                                   h |-> files[current + 1].h]}
          /\ UNCHANGED img
     ELSE /\ img' = NoImg
          /\ UNCHANGED loads
  /\ UNCHANGED <<sessionVars, mounted, rafPending, drawDeps, frame, fullscreen, fnVars>>

\* image.onload = () => setImg(image): the callback of a started load
LoadComplete(image) ==
  /\ image \in loads
  /\ loads' = loads \ {image}
  /\ img' = image
  /\ UNCHANGED <<sessionVars, mounted, loadDeps, rafPending, drawDeps, frame, fullscreen, fnVars>>

\* the body of draw for the closure d, with the clock deciding whether the
\* transition window (revealDurationMs) is still open
drawFrame(d, popping) ==
  IF d.img = NoImg
  THEN [NoFrame EXCEPT !.kind = "placeholder"]
  ELSE LET scale == fitScale(CanvasW, CanvasH, d.img.w, d.img.h)
           dw == fitSize(d.img.w, scale)
           dh == fitSize(d.img.h, scale)
           loops == maskLoops(d.revealMode, d.stepIndex, d.stepsTotal,
                              IF IsNaN(d.tileN) THEN NaN ELSE d.tileN * d.tileN,
                              d.wedgeSegments)
       IN [kind |-> "degraded", iw |-> d.img.w, ih |-> d.img.h,
           dw |-> dw, dh |-> dh,
           dx |-> fitOffset(CanvasW, dw), dy |-> fitOffset(CanvasH, dh),
           mask |-> loops.mask, incoming |-> loops.incoming, popping |-> popping]

\* the draw-loop effect: the cleanup of the previous run cancels its frame;
\* without a canvas (setup screen) the effect returns, else it calls draw()
RunDrawEffect(popping) ==
  /\ mounted
  /\ drawDeps # DrawDeps
  /\ drawDeps' = DrawDeps
  /\ IF isGameActive
     THEN /\ frame' = drawFrame(DrawDeps, popping)
          /\ rafPending' = TRUE
     ELSE /\ rafPending' = FALSE
          /\ UNCHANGED frame
  /\ UNCHANGED <<sessionVars, img, mounted, loads, loadDeps, fullscreen, fnVars>>

\* the frame callback: raf = requestAnimationFrame(draw); then the body of draw
DrawFrame(popping) ==
  /\ rafPending
  /\ frame' = drawFrame(drawDeps, popping)
  /\ UNCHANGED <<sessionVars, img, mounted, loads, loadDeps, rafPending, drawDeps, fullscreen, fnVars>>

\* teardown: the cleanups run, of which the draw loop's is
\* cancelAnimationFrame(raf); the image-load effect has no cleanup
Unmount ==
  /\ mounted
  /\ mounted' = FALSE
  /\ rafPending' = FALSE
  /\ UNCHANGED <<sessionVars, img, loads, loadDeps, drawDeps, frame, fullscreen, fnVars>>

(***************************************************************************)
(* Calls of the pure helpers with arguments from bounded sets.             *)
(***************************************************************************)
Call(name, args, out) ==
  /\ fnName = "none"
  /\ fnName' = name
  /\ fnArgs' = args
  /\ fnOut' = out
  /\ UNCHANGED <<sessionVars, effectVars>>

CallMakeRandomOrder(count, sd) ==
  Call("makeRandomOrder", <<count, sd>>, makeRandomOrder(count, sd))

CallMakeSegmentOrder(count, sd) ==
  Call("makeSegmentOrder", <<count, sd>>, makeSegmentOrder(count, sd))

CallMakeSpiralOrder(n, direction, sd) ==
  Call("makeSpiralOrder", <<n, sd, direction>>, makeSpiralOrder(n, direction, sd))

CallPointsForStep(step, total) ==
  Call("pointsForStep", <<step, total>>, pointsForStep(step, total, MaxPoints))

CallMaskLoops(mode, step, total, count) ==
  Call("maskLoops", <<step, total, count, mode>>, maskLoops(mode, step, total, count, count))

(***************************************************************************)
(* Specifications.                                                         *)
(***************************************************************************)
\* what the file picker may deliver in the session specifications
SessionPicks == {[k \in 1..n |-> [w |-> 4, h |-> 3]] : n \in 1..MaxFiles}

\* natural sizes an image may decode to; an SVG without intrinsic size has 0
ImageSizes == {[w |-> 4, h |-> 3], [w |-> 0, h |-> 3], [w |-> 0, h |-> 0]}

LoadPicks == UNION {[1..n -> ImageSizes] : n \in 1..MaxFiles}

\* the session: setup of the step count, files and teams, then the game
Next ==
  \/ \E v \in StepsInputs : SetStepsTotal(v)
  \/ \E p \in SessionPicks : OnPickFiles(p)
  \/ (Len(teams) < MaxSessionTeams /\ AddTeam)
  \/ ResetScores
  \/ StartGame
  \/ (stepIndex < MaxSessionStep /\ NextStep)
  \/ PrevStep
  \/ ResetRound
  \/ NextImage
  \/ \E i \in 0..(MaxTeams - 1) : AwardTeam(i)

Spec == Init /\ [][Next]_vars

\* the reveal configuration and the rounds that re-derive the orders
NextOrder ==
  \/ \E m \in {"GRID_RANDOM", "WEDGES_RADIAL", "SPIRAL_GRID"} : SetRevealMode(m)
  \/ \E d \in {"outside-in", "inside-out"} : SetSpiralDirection(d)
  \/ \E v \in TileInputs : SetTileN(v)
  \/ \E v \in SegmentInputs : SetWedgeSegments(v)
  \/ \E p \in SessionPicks : OnPickFiles(p)
  \/ StartGame
  \/ (stepIndex < MaxOrderStep /\ NextStep)
  \/ ResetRound
  \/ NextImage

SpecOrder == Init /\ [][NextOrder]_vars

\* image loading, the draw loop and teardown
NextLoad ==
  \/ (EffectsFlushed /\ \E p \in LoadPicks : OnPickFiles(p))
  \/ (EffectsFlushed /\ StartGame)
  \/ (EffectsFlushed /\ stepIndex < MaxOrderStep /\ NextStep)
  \/ (EffectsFlushed /\ NextImage)
  \/ RunImageEffect
  \/ \E b \in BOOLEAN : RunDrawEffect(b)
  \/ \E image \in loads : LoadComplete(image)
  \/ \E b \in BOOLEAN : DrawFrame(b)
  \/ Unmount

SpecLoad == Init /\ [][NextLoad]_vars

\* the helpers on their own
NextScore == \E total \in MinSteps..MaxSteps : \E step \in 0..total : CallPointsForStep(step, total)

SpecScore == Init /\ [][NextScore]_vars

\* unit counts of the reveal harness: 6 x 6 tiles, and 6 and 22 wedges
RevealUnits == {<<"GRID_RANDOM", 36>>, <<"WEDGES_RADIAL", 6>>, <<"WEDGES_RADIAL", 22>>}

NextReveal ==
  \E total \in MinSteps..MaxSteps : \E step \in 0..total : \E u \in RevealUnits :
    CallMaskLoops(u[1], step, total, u[2])

SpecReveal == Init /\ [][NextReveal]_vars

NextGen ==
  \/ \E count \in 1..MaxFnCount : \E sd \in 1..MaxFnSeed : CallMakeRandomOrder(count, sd)
  \/ \E count \in 1..MaxFnCount : \E sd \in 1..MaxFnSeed : CallMakeSegmentOrder(count, sd)
  \/ \E n \in 1..MaxFnTileN : \E d \in {"outside-in", "inside-out"} :
       \E sd \in 1..MaxFnSeed : CallMakeSpiralOrder(n, d, sd)

SpecGen == Init /\ [][NextGen]_vars

\* the keys pressed in the keyboard specification: Space, "n", "r" and the
\* letters of the first MaxTeams + 1 team names in both cases
KeyCodes == {32, 110, 114} \cup {97 + i : i \in 0..MaxTeams} \cup {65 + i : i \in 0..MaxTeams}

\* teams, files, game start and the keyboard
NextKeys ==
  \/ AddTeam
  \/ \E p \in SessionPicks : OnPickFiles(p)
  \/ StartGame
  \/ \E key \in KeyCodes : (key = 32 => stepIndex < MaxOrderStep) /\ KeyDown(key)

SpecKeys == Init /\ [][NextKeys]_vars

(***************************************************************************)
(* Claims.                                                                 *)
(***************************************************************************)
\* C1: in every reachable state of a session the step index satisfies
\* 0 <= step <= stepsTotal (the comparisons of JavaScript numbers).
C1_StepWithinBounds == jsLeq(0, stepIndex) /\ jsLeq(stepIndex, stepsTotal)

\* C2: awardTeam(i) for an existing team i with at least one image adds exactly
\* pointsForStep(step, stepsTotal, 20), taken at the step before the reset, to
\* team i's score and leaves every other team alone, moves to image
\* (current + 1) mod n, sets step to 0 and the seed to seed + 1; at step 3 of
\* 20 steps it adds exactly 17.
C2_AwardTeam ==
  [][\A i \in 0..(MaxTeams - 1) :
       (AwardTeam(i) /\ Len(files) >= 1) =>
         /\ Len(teams') = Len(teams)
         /\ teams'[i + 1].score =
              jsAdd(teams[i + 1].score, pointsForStep(stepIndex, stepsTotal, 20))
         /\ teams'[i + 1].name = teams[i + 1].name
         /\ \A j \in DOMAIN teams : j # i + 1 => teams'[j] = teams[j]
         /\ current' = (current + 1) % Len(files)
         /\ stepIndex' = 0
         /\ seed' = seed + 1
         /\ (stepIndex = 3 /\ stepsTotal = 20 =>
               teams'[i + 1].score = teams[i + 1].score + 17)]_vars

\* a round of 20 steps was awarded at step 3: team A holds 17 points, team B
\* none, and the next round has begun
C2_Awarded17 ==
  /\ isGameActive /\ stepsTotal = 20 /\ stepIndex = 0 /\ seed = 3
  /\ teams[1].score = 17 /\ teams[2].score = 0

\* C3: for stepsTotal in 5..80 and step in 0..stepsTotal,
\* pointsForStep(step, stepsTotal, 20) lies in 1..20, is 20 at step 0, is 1 at
\* step stepsTotal - 1 and later, and is not above its value one step earlier.
C3_PointsForStep ==
  fnName = "pointsForStep" =>
    LET step == fnArgs[1]
        total == fnArgs[2]
    IN /\ fnOut \in 1..MaxPoints
       /\ (step = 0 => fnOut = MaxPoints)
       /\ (step >= total - 1 => fnOut = 1)
       /\ (step > 0 => fnOut <= pointsForStep(step - 1, total, MaxPoints))

\* the last step but one of 80 steps is worth the floor of 1 point
C3_FloorReached ==
  fnName = "pointsForStep" /\ fnArgs = <<79, 80>> /\ fnOut = 1

\* C4: the number of units in the reveal mask at step s is
\* floor(s / stepsTotal * unitCount): 0 at step 0, unitCount at step
\* stepsTotal, not below the previous step's count, with a non-negative
\* incoming count, and the settled range [0, prev) and the incoming range
\* [prev, visible) cover the first visible(s) positions exactly once.
C4_MaskCount ==
  fnName = "maskLoops" =>
    LET step == fnArgs[1]
        total == fnArgs[2]
        count == fnArgs[3]
        exact == (step * count) \div total
    IN /\ Len(fnOut.mask) = exact
       /\ fnOut.toShow = exact
       /\ (step = 0 => Len(fnOut.mask) = 0)
       /\ (step = total => Len(fnOut.mask) = count)
       /\ fnOut.prev <= fnOut.toShow
       /\ fnOut.incomingCount >= 0
       /\ fnOut.settled \o fnOut.incoming = [k \in 1..exact |-> k - 1]

\* C5: makeRandomOrder(count, seed), makeSegmentOrder(count, seed) and
\* makeSpiralOrder(tileN, direction, seed) with count = tileN * tileN return a
\* permutation of 0..count-1: count entries, every index exactly once.
C5_Permutation ==
  fnName \in {"makeRandomOrder", "makeSegmentOrder", "makeSpiralOrder"} =>
    LET count == IF fnName = "makeSpiralOrder" THEN fnArgs[1] * fnArgs[1] ELSE fnArgs[1]
    IN /\ Len(fnOut) = count
       /\ \A v \in 0..(count - 1) : Cardinality({k \in 1..count : fnOut[k] = v}) = 1

\* six units shuffled with seed 1
C5_Shuffled ==
  fnName = "makeRandomOrder" /\ fnArgs = <<6, 1>> /\ fnOut = <<4, 0, 3, 2, 5, 1>>

\* C6: resetRound sets step to 0 and changes the seed, and the order of every
\* reveal mode with more than one unit differs from the order of the prior seed.
C6_ResetRound ==
  [][ResetRound =>
       /\ stepIndex' = 0
       /\ seed' # seed
       /\ UNCHANGED <<tileN, revealMode, spiralDirection, wedgeSegments>>
       /\ (jsLeq(2, tileCount) => revealOrderFor(seed') # revealOrder)
       /\ (jsLeq(2, wedgeSegments) => wedgeOrderFor(seed') # wedgeOrder)]_vars

\* a round of a two-image game was reset on its first image
C6_RoundReset ==
  /\ isGameActive /\ stepIndex = 0 /\ seed = 3
  /\ Len(files) = 2 /\ current = 0 /\ revealMode = "SPIRAL_GRID"

\* C7: for one round seed and equal unit counts, the wedge order is not the
\* same sequence as the grid-random tile order.
C7_WedgeOrderDecoupled ==
  (revealMode # "SPIRAL_GRID" /\ tileCount = wedgeSegments) => wedgeOrder # revealOrder

\* C8: after teardown a completing image load changes no state (the active
\* image stays as it was), and no frame callback stays registered.
C8_LoadIgnoredAfterTeardown ==
  [][(~mounted => img' = img) /\ (~mounted' => ~rafPending')]_vars

\* C9: a frame drawn with a loaded image never computes the fitted rectangle
\* from a quotient whose divisor, the natural width or height, is 0.
C9_NoZeroDivisor ==
  frame.kind = "degraded" => frame.iw # 0 /\ frame.ih # 0

\* C10: consecutive entries of makeSpiralOrder's result are edge-adjacent cells
\* of the grid, except for at most one pair.
C10_SpiralAdjacent ==
  fnName = "makeSpiralOrder" =>
    LET n == fnArgs[1]
        apart(a, b) ==
          LET dr == (a \div n) - (b \div n)
              dc == (a % n) - (b % n)
          IN (IF dr < 0 THEN 0 - dr ELSE dr) + (IF dc < 0 THEN 0 - dc ELSE dc)
    IN Cardinality({k \in 1..(Len(fnOut) - 1) : apart(fnOut[k], fnOut[k + 1]) # 1}) <= 1

\* the 3 x 3 spiral rotated by seed 1: the seam lies between cells 4 and 0
C10_SeamPresent ==
  fnName = "makeSpiralOrder" /\ fnArgs = <<3, 1, "outside-in">>
    /\ fnOut = <<1, 2, 5, 8, 7, 6, 3, 4, 0>>

\* C11: while the game is active, the key whose letter is the name of an
\* existing team i (upper or lower case) awards that team: the key press is
\* awardTeam(i).
C11_TeamKeyAwards ==
  [][\A i \in 0..(MaxTeams - 1) :
       \A key \in {65 + i, 97 + i} :
         (i < Len(teams) /\ teams[i + 1].name = 65 + i /\ KeyDown(key)) => AwardTeam(i)]_vars

\* C12: whenever files are picked, the image-load effect has run for the
\* current index and no load is in flight, the active image is the one loaded
\* for the current index, in whatever order the loads completed.
C12_ActiveImageIsCurrent ==
  (Len(files) > 0 /\ loadDeps = ImageDeps /\ loads = {}) => img.idx = current

====
